---- MODULE Spec2Model ----
(***************************************************************************)
(* Model of the real-time response streaming pipeline:                     *)
(*   - the useWebSocket transport hook (frontend/src/hooks/useWebSocket.ts)*)
(*   - the StreamingChat orchestrator (components/StreamingChat.tsx)       *)
(*   - the websocket messageHandler relay (lambda websocket handler)       *)
(*   - invokeAgentStream, the direct-fetch decoder (frontend agentcore.ts) *)
(* Text is modelled as a sequence of one-character strings.                *)
(***************************************************************************)
EXTENDS Integers, Sequences, FiniteSets, TLC

\* ------------------------------------------------------------------ bounds
MaxSockets == 2      \* sockets that exist at once (the ref's and the others)
MaxSends == 3        \* sendMessage calls made on the hook
MaxPrompts == 2      \* prompts submitted in StreamingChat
MaxChunks == 2       \* chunks of one upstream response
MaxTurnChunks == 1   \* chunks of one response when whole turns are followed
MaxTextLen == 6      \* characters of a simulated-streaming text
MaxEvents == 2       \* upstream events of one invokeAgentStream call
MaxBadFrames == 1    \* inbound frames that fail JSON.parse
MaxLines == 2        \* events of one raw response body
MaxRandomDigits == 11 \* base-36 digits after "0." of a Math.random()
MaxPieces == 4       \* pieces a text given to the sanitizer is made of
MaxPhrases == 3      \* pieces a text given to the classifier is made of

\* ------------------------------------------------------- program constants
MAX_RECONNECT_ATTEMPTS == 5
INITIAL_RECONNECT_DELAY == 1000

VARIABLES
  \* useWebSocket
  url,                \* the hook's argument: "none" (null), "ws" or "bad"
  phase,              \* "new" | "mounted" | "unmounted" (useEffect / cleanup)
  wsRef,              \* wsRef.current: "null", or the readyState of the socket
  others,             \* sockets no longer (or not) in wsRef.current whose
                      \* handlers can still fire: how many in each readyState
  isConnected,
  isConnecting,
  error,
  reconnectAttempts,
  reconnectTimeout,   \* TRUE iff reconnectTimeout.current names a pending timer
                      \* (null and the id of a fired timer behave alike:
                      \* clearTimeout of a fired timer does nothing)
  strayTimers,        \* pending timers whose id was overwritten in the ref
  lastDelay,          \* delay (ms) passed to the latest setTimeout, 0 if none
  messageQueue,
  sent,               \* log of ws.send calls: [msg, queued]
  nCalls,             \* number of sendMessage calls so far (message k is the k-th)
  closeRun,           \* unexpected closes since the last open or reconnect()
  lastMessage,        \* [type, content]; NoMessage for null
  \* StreamingChat
  messages,
  streamingContent,
  isProcessing,
  effectPending,      \* lastMessage was set since useEffect([lastMessage]) last ran
  \* websocket messageHandler and the connection to the client
  reqs,               \* handler invocations in progress: [stage, chunks]
  inbox,              \* frames posted to the connection and not yet delivered
  turnChunks,         \* history: chunk contents received since the last 'start'
  \* invokeAgentStream
  pc,                 \* "reading" | "completed"
  fullResponse,
  out,                \* the texts passed to onChunk, in call order
  timers,             \* pending setTimeout(streamWords, 30) closures, in order
  nEvents,            \* upstream events read so far
  completeText,       \* the argument of onComplete
  outAtComplete,      \* history: Len(out) when onComplete was called
  \* simulated streaming of one text
  wText,
  wWords,             \* text.split(' ')
  wIndex,             \* currentIndex (frontend), i (websocket handler)
  wChunks,            \* chunks emitted so far
  wMode,              \* "words": streamWords; "slices": the handler's fallback
  \* the console
  parseErrors,        \* console.error('Failed to parse WebSocket message') calls
  \* App (direct-fetch chat)
  user,               \* TRUE iff a user is signed in
  appMessages,
  loading,
  appError,
  calls,              \* invokeAgentStream calls made by handleSendMessage:
                      \* [index (agentMessageIndex), chunks, ended, token,
                      \* fetched]
  \* the response body invokeAgentStream reads
  body,               \* the characters of the whole body
  readPos,            \* how many of them reader.read() has delivered
  \* session identifiers
  sessionId,          \* the Session-Id header of the latest request
  sessionStorage,     \* the item 'agentcore_session_id', <<>> when unset
  \* the handler utilities applied to one text
  rawChunk,           \* the argument
  sanitized,          \* the result of sanitizeForHIPAA
  verdict,            \* the result of checkMedicalContentSafety
  warnings,           \* the result of checkMedicalSafety
  utilPc,             \* "idle", "input", then the utility that ran
  \* one invocation of the websocket messageHandler
  request,            \* what JSON.parse(event.body) finds: "ok", "noPrompt", ...
  handlerPc,          \* "idle", "received", "fetching", "reading", "returned"
  contentType,        \* of the upstream response: "event-stream", "json"
  buffer,             \* the partial line streamBedrockResponse keeps between reads
  posted,             \* frames this invocation posted to the connection, in order
  statusCode,         \* the statusCode it returned, 0 before
  \* one call of invokeAgentStream
  invokePc,           \* "idle", "config", "token", "user", "fetch", "reading", "done", "failed"
  onCompleteCalls,    \* times the call has called onComplete
  onErrorCalls        \* times the call has called onError

hookVars == <<url, phase, wsRef, others, isConnected, isConnecting, error,
              reconnectAttempts, reconnectTimeout, strayTimers, lastDelay,
              messageQueue, sent, nCalls, closeRun, lastMessage>>

chatVars == <<messages, streamingContent, isProcessing, effectPending, reqs,
              inbox, turnChunks>>

streamVars == <<pc, fullResponse, out, timers, nEvents, completeText,
                outAtComplete>>

wordVars == <<wText, wWords, wIndex, wChunks, wMode>>

logVars == <<parseErrors>>

appVars == <<user, appMessages, loading, appError, calls>>

rawVars == <<body, readPos>>

sessVars == <<sessionId, sessionStorage>>

utilVars == <<rawChunk, sanitized, verdict, warnings, utilPc>>

handlerVars == <<request, handlerPc, contentType, buffer, posted, statusCode>>

invokeVars == <<invokePc, onCompleteCalls, onErrorCalls>>

vars == <<hookVars, chatVars, streamVars, wordVars, logVars, appVars,
          rawVars, sessVars, utilVars, handlerVars, invokeVars>>

\* every variable of the parts a specification does not move
HookOnly ==
  UNCHANGED <<chatVars, streamVars, wordVars, logVars, appVars, rawVars,
              sessVars, utilVars, handlerVars, invokeVars>>
ChatOnly ==
  UNCHANGED <<streamVars, wordVars, logVars, appVars, rawVars, sessVars,
              utilVars, handlerVars, invokeVars>>
StreamOnly ==
  UNCHANGED <<hookVars, chatVars, wordVars, logVars, appVars, rawVars,
              sessVars, utilVars, handlerVars, invokeVars>>
WordsOnly ==
  UNCHANGED <<hookVars, chatVars, streamVars, logVars, appVars, rawVars,
              sessVars, utilVars, handlerVars, invokeVars>>
EventsOnly ==
  UNCHANGED <<chatVars, streamVars, wordVars, appVars, rawVars, sessVars,
              utilVars, handlerVars, invokeVars>>
RawOnly ==
  UNCHANGED <<hookVars, chatVars, wordVars, logVars, appVars, sessVars,
              utilVars, handlerVars, invokeVars>>
SessOnly ==
  UNCHANGED <<hookVars, chatVars, streamVars, wordVars, logVars, appVars,
              rawVars, utilVars, handlerVars, invokeVars>>
UtilOnly ==
  UNCHANGED <<hookVars, chatVars, streamVars, wordVars, logVars, appVars,
              rawVars, sessVars, handlerVars, invokeVars>>
HandlerOnly ==
  UNCHANGED <<hookVars, chatVars, streamVars, wordVars, logVars, appVars,
              rawVars, sessVars, utilVars, invokeVars>>
InvokeOnly ==
  UNCHANGED <<hookVars, chatVars, streamVars, wordVars, logVars, appVars,
              rawVars, sessVars, utilVars, handlerVars>>
AppOnly ==
  UNCHANGED <<hookVars, chatVars, streamVars, wordVars, logVars, rawVars,
              sessVars, utilVars, handlerVars, invokeVars>>

\* --------------------------------------------------------------- helpers
Null == "null"
ErrConnection == "WebSocket connection error"
ErrMaxAttempts == "Max reconnection attempts reached"
ErrCreate == "Failed to create WebSocket connection"
\* SafetyCheckResult before any check
NoVerdict == [isSafe |-> TRUE, emergencyDetected |-> FALSE,
              medicationWarning |-> FALSE, recommendations |-> <<>>]

\* Math.pow(2, n) for the values reconnectAttempts takes
Pow2(n) == IF n = 0 THEN 1
           ELSE IF n = 1 THEN 2
           ELSE IF n = 2 THEN 4
           ELSE IF n = 3 THEN 8
           ELSE IF n = 4 THEN 16
           ELSE 32

\* Socket objects carry no identity the code reads except through
\* wsRef.current, so the sockets outside the ref are kept as counts.
\* "closing": close() was called on an open socket; "failing": close() was
\* called while connecting (the browser fails the connection: error, close).
OtherStates == {"connecting", "open", "closing", "failing"}
NoOthers == [st \in OtherStates |-> 0]
Count(oth) == oth["connecting"] + oth["open"] + oth["closing"] + oth["failing"]
Put(oth, st) == IF st \in OtherStates THEN [oth EXCEPT ![st] = @ + 1] ELSE oth
LiveCount == (IF wsRef \in {"connecting", "open"} THEN 1 ELSE 0)
             + others["connecting"] + others["open"]
PendingTimers == strayTimers + (IF reconnectTimeout THEN 1 ELSE 0)

NoMessage == [type |-> "none", content |-> <<>>]

\* ------------------------------------------------------------ useWebSocket
\* connect() without the test of url: a socket is created for any url
ConnectFromAnyUrl(ref, oth) ==
  IF ref = "open"
    THEN /\ wsRef' = ref
         /\ others' = oth
         /\ UNCHANGED <<isConnecting, error>>
    ELSE /\ Count(Put(oth, ref)) < MaxSockets
         /\ wsRef' = "connecting"
         /\ others' = Put(oth, ref)
         /\ isConnecting' = TRUE
         /\ error' = Null

\* connect(): the state it leaves, starting from ref/oth (the values left by
\* the code that ran before it in the same handler).
ConnectFrom(ref, oth) ==
  IF url = "none" \/ ref = "open"
    THEN /\ wsRef' = ref
         /\ others' = oth
         /\ UNCHANGED <<isConnecting, error>>
    ELSE IF url = "bad"
      THEN \* new WebSocket(url) throws: the catch block
           /\ wsRef' = ref
           /\ others' = oth
           /\ isConnecting' = FALSE
           /\ error' = ErrCreate
      ELSE /\ Count(Put(oth, ref)) < MaxSockets
           /\ wsRef' = "connecting"
           /\ others' = Put(oth, ref)
           /\ isConnecting' = TRUE
           /\ error' = Null

\* ws.close() as seen in readyState: the close event comes later
CloseCall(st) == IF st = "open" THEN "closing"
                 ELSE IF st = "connecting" THEN "failing"
                 ELSE st

\* disconnect(): wsRef.current.close(); wsRef.current = null
DisconnectOthers == Put(others, CloseCall(wsRef))

\* the flush loop written with pop() in place of shift(): newest first
FlushQueueLifo(q) == [i \in 1..Len(q) |-> [msg |-> q[Len(q) + 1 - i], queued |-> TRUE]]

\* the while loop of onopen: shift() and send until the queue is empty
FlushQueue(q) == [i \in 1..Len(q) |-> [msg |-> q[i], queued |-> TRUE]]

\* useEffect(() => { if (url) connect(); ... })
Mount ==
  /\ phase \in {"new", "unmounted"}
  /\ phase' = "mounted"
  /\ ConnectFrom(wsRef, others)
  /\ UNCHANGED <<url, isConnected, reconnectAttempts, reconnectTimeout,
                 strayTimers, lastDelay, messageQueue, sent, nCalls,
                 closeRun, lastMessage>>

\* the effect's cleanup: disconnect()
Unmount ==
  /\ phase = "mounted"
  /\ phase' = "unmounted"
  /\ reconnectTimeout' = FALSE
  /\ others' = DisconnectOthers
  /\ wsRef' = Null
  /\ UNCHANGED <<url, isConnected, isConnecting, error, reconnectAttempts,
                 strayTimers, lastDelay, messageQueue, sent, nCalls, closeRun,
                 lastMessage>>

\* ws.onopen of the socket in wsRef.current (inRef) or of another socket
Onopen(inRef) ==
  /\ IF inRef
       THEN /\ wsRef = "connecting"
            /\ wsRef' = "open"
            /\ others' = others
       ELSE /\ others["connecting"] > 0
            /\ others' = [others EXCEPT !["connecting"] = @ - 1, !["open"] = @ + 1]
            /\ wsRef' = wsRef
  /\ isConnected' = TRUE
  /\ isConnecting' = FALSE
  /\ error' = Null
  /\ reconnectAttempts' = 0
  /\ sent' = sent \o FlushQueue(messageQueue)
  /\ messageQueue' = <<>>
  /\ closeRun' = 0
  /\ UNCHANGED <<url, phase, reconnectTimeout, strayTimers, lastDelay,
                 nCalls, lastMessage>>

\* The close event of a socket in readyState st: ws.onerror first when the
\* connection failed (withError), then ws.onclose, in one task.
Onclose(inRef, st, withError) ==
  /\ \/ st = "connecting" /\ withError
     \/ st = "open"
     \/ st = "closing" /\ ~withError
     \/ st = "failing" /\ withError
     \/ st = "erred" /\ ~withError
  /\ IF inRef
       THEN /\ wsRef = st
            /\ wsRef' = "closed"
            /\ others' = others
       ELSE /\ others[st] > 0
            /\ others' = [others EXCEPT ![st] = @ - 1]
            /\ wsRef' = wsRef
  /\ isConnected' = FALSE
  /\ isConnecting' = FALSE
  /\ closeRun' = IF st \in {"connecting", "open", "erred"}
                      /\ closeRun <= MAX_RECONNECT_ATTEMPTS
                   THEN closeRun + 1 ELSE closeRun
  /\ IF reconnectAttempts < MAX_RECONNECT_ATTEMPTS
       THEN /\ PendingTimers < MaxSockets
            /\ lastDelay' = INITIAL_RECONNECT_DELAY * Pow2(reconnectAttempts)
            /\ reconnectAttempts' = reconnectAttempts + 1
            /\ strayTimers' = PendingTimers
            /\ reconnectTimeout' = TRUE
            /\ error' = IF withError THEN ErrConnection ELSE error
       ELSE /\ error' = ErrMaxAttempts
            /\ UNCHANGED <<lastDelay, reconnectAttempts, reconnectTimeout,
                           strayTimers>>
  /\ UNCHANGED <<url, phase, messageQueue, sent, nCalls, lastMessage>>

\* the setTimeout callback of onclose: connect(); named: the timer is the one
\* reconnectTimeout.current holds
TimerFire(named) ==
  /\ IF named
       THEN /\ reconnectTimeout
            /\ reconnectTimeout' = FALSE
            /\ strayTimers' = strayTimers
       ELSE /\ strayTimers > 0
            /\ strayTimers' = strayTimers - 1
            /\ reconnectTimeout' = reconnectTimeout
  /\ ConnectFrom(wsRef, others)
  /\ UNCHANGED <<url, phase, isConnected, reconnectAttempts, lastDelay,
                 messageQueue, sent, nCalls, closeRun, lastMessage>>

\* sendMessage(message): what it does to the socket, the queue and the
\* connection; message is the (nCalls+1)-th message
SendMessageCall(limit) ==
  /\ nCalls < limit
  /\ nCalls' = nCalls + 1
  /\ IF wsRef = "open"
       THEN /\ sent' = Append(sent, [msg |-> nCalls + 1, queued |-> FALSE])
            /\ UNCHANGED <<messageQueue, wsRef, others, isConnecting, error>>
       ELSE /\ messageQueue' = Append(messageQueue, nCalls + 1)
            /\ sent' = sent
            /\ IF ~isConnected /\ ~isConnecting
                 THEN ConnectFrom(wsRef, others)
                 ELSE UNCHANGED <<wsRef, others, isConnecting, error>>

SendMessage ==
  /\ phase = "mounted"
  /\ SendMessageCall(MaxSends)
  /\ UNCHANGED <<url, phase, isConnected, reconnectAttempts, reconnectTimeout,
                 strayTimers, lastDelay, closeRun, lastMessage>>

\* ws.onmessage with a frame that parses: setLastMessage(data)
Onmessage(frame) ==
  /\ wsRef = "open" \/ others["open"] > 0
  /\ lastMessage' = frame
  /\ UNCHANGED <<url, phase, wsRef, others, isConnected, isConnecting, error,
                 reconnectAttempts, reconnectTimeout, strayTimers, lastDelay,
                 messageQueue, sent, nCalls, closeRun>>

\* ws.onerror alone, for the socket in wsRef.current: the browser has set
\* readyState to CLOSED ("erred") and fires error, then close
Onerror ==
  /\ wsRef \in {"connecting", "open"}
  /\ wsRef' = "erred"
  /\ error' = ErrConnection
  /\ isConnecting' = FALSE
  /\ UNCHANGED <<url, phase, others, isConnected, reconnectAttempts,
                 reconnectTimeout, strayTimers, lastDelay, messageQueue, sent,
                 nCalls, closeRun, lastMessage>>

\* ws.onmessage with data that JSON.parse rejects: the catch block
OnmessageMalformed ==
  /\ wsRef = "open" \/ others["open"] > 0
  /\ parseErrors < MaxBadFrames
  /\ parseErrors' = parseErrors + 1
  /\ UNCHANGED hookVars

\* reconnect(): disconnect(); reconnectAttempts.current = 0; connect()
Reconnect ==
  /\ phase = "mounted"
  /\ reconnectTimeout' = FALSE
  /\ reconnectAttempts' = 0
  /\ closeRun' = 0
  /\ ConnectFrom(Null, DisconnectOthers)
  /\ UNCHANGED <<url, phase, isConnected, strayTimers, lastDelay, messageQueue,
                 sent, nCalls, lastMessage>>

\* ------------------------------------------------------------------ hook
HookInit(urls) ==
  /\ url \in urls
  /\ phase = "new"
  /\ wsRef = Null
  /\ others = NoOthers
  /\ isConnected = FALSE
  /\ isConnecting = FALSE
  /\ error = Null
  /\ reconnectAttempts = 0
  /\ reconnectTimeout = FALSE
  /\ strayTimers = 0
  /\ lastDelay = 0
  /\ messageQueue = <<>>
  /\ sent = <<>>
  /\ nCalls = 0
  /\ closeRun = 0
  /\ lastMessage = NoMessage

ChatInit ==
  /\ messages = <<>>
  /\ streamingContent = <<>>
  /\ isProcessing = FALSE
  /\ effectPending = FALSE
  /\ reqs = <<>>
  /\ inbox = <<>>
  /\ turnChunks = <<>>

StreamInit ==
  /\ pc = "reading"
  /\ fullResponse = <<>>
  /\ out = <<>>
  /\ timers = <<>>
  /\ nEvents = 0
  /\ completeText = <<>>
  /\ outAtComplete = 0

LogInit == parseErrors = 0

\* no body is being read
RawIdle ==
  /\ body = <<>>
  /\ readPos = 0

SessIdle ==
  /\ sessionId = <<>>
  /\ sessionStorage = <<>>

UtilIdle ==
  /\ rawChunk = <<>>
  /\ sanitized = <<>>
  /\ verdict = NoVerdict
  /\ warnings = <<>>
  /\ utilPc = "idle"

HandlerIdle ==
  /\ request = "ok"
  /\ handlerPc = "idle"
  /\ contentType = "none"
  /\ buffer = <<>>
  /\ posted = <<>>
  /\ statusCode = 0

InvokeIdle ==
  /\ invokePc = "idle"
  /\ onCompleteCalls = 0
  /\ onErrorCalls = 0

AppInit ==
  /\ user = TRUE
  /\ appMessages = <<>>
  /\ loading = FALSE
  /\ appError = ""
  /\ calls = <<>>

WordsIdle ==
  /\ wText = <<>>
  /\ wWords = <<>>
  /\ wIndex = 0
  /\ wChunks = <<>>
  /\ wMode = "none"

\* the hook alone, driven through its interface in any order
InitHook ==
  HookInit({"none", "ws", "bad"}) /\ ChatInit /\ StreamInit
  /\ WordsIdle /\ LogInit /\ AppInit /\ RawIdle
  /\ SessIdle
  /\ UtilIdle
  /\ HandlerIdle
  /\ InvokeIdle
NextHook ==
  \/ Mount /\ HookOnly
  \/ Unmount /\ HookOnly
  \/ \E r \in BOOLEAN : Onopen(r) /\ HookOnly
  \/ \E r \in BOOLEAN, st \in OtherStates, e \in BOOLEAN :
       Onclose(r, st, e) /\ HookOnly
  \/ \E n \in BOOLEAN : TimerFire(n) /\ HookOnly
  \/ SendMessage /\ HookOnly
  \/ Reconnect /\ HookOnly
SpecHook == InitHook /\ [][NextHook]_vars

\* ----------------------------------------------------------- frames
\* the text of the k-th chunk of a response, as the agent runtime produces
\* it: every second one holds a phone number
PhoneText == <<"5", "5", "5", "1", "2", "3", "4", "5", "6", "7">>
ChunkText(k) == IF k % 2 = 1 THEN <<"a">> ELSE PhoneText
StartFrame == [type |-> "start", content |-> <<>>]
ChunkFrame(c) == [type |-> "chunk", content |-> c]
EndFrame == [type |-> "end", content |-> <<>>]
ErrorFrame == [type |-> "error", content |-> <<>>]

\* the hook's socket event handlers one at a time: error and close as the
\* two events they are, and frames that parse or fail to parse
InitEvents ==
  HookInit({"ws"}) /\ ChatInit /\ StreamInit
  /\ WordsIdle /\ LogInit /\ AppInit /\ RawIdle
  /\ SessIdle
  /\ UtilIdle
  /\ HandlerIdle
  /\ InvokeIdle
NextEvents ==
  \/ Mount /\ EventsOnly /\ UNCHANGED logVars
  \/ Onopen(TRUE) /\ EventsOnly /\ UNCHANGED logVars
  \/ Onerror /\ EventsOnly /\ UNCHANGED logVars
  \/ \E st \in {"erred", "open"} :
       Onclose(TRUE, st, FALSE) /\ EventsOnly /\ UNCHANGED logVars
  \/ TimerFire(TRUE) /\ EventsOnly /\ UNCHANGED logVars
  \/ SendMessage /\ EventsOnly /\ UNCHANGED logVars
  \/ \E f \in {StartFrame, ChunkFrame(ChunkText(1)), EndFrame, ErrorFrame} :
       Onmessage(f) /\ EventsOnly /\ UNCHANGED logVars
  \/ OnmessageMalformed /\ EventsOnly
SpecEvents == InitEvents /\ [][NextEvents]_vars

\* ------------------------------------------- websocket messageHandler
\* One invocation per message that reaches the route; it posts 'start', the
\* chunks streamBedrockResponse hands to onChunk, then 'end', or 'error'
\* when streamBedrockResponse throws.
NewReq == [stage |-> "start", chunks |-> 0]
\* a request whose body has no jwtToken
NoTokenReq == [stage |-> "notoken", chunks |-> 0]
Invocations(n) == [i \in 1..n |-> NewReq]
Remove(seq, i) == [j \in 1..(Len(seq) - 1) |-> IF j < i THEN seq[j] ELSE seq[j + 1]]

HandlerStart(i) ==
  /\ reqs[i].stage = "start"
  /\ reqs' = [reqs EXCEPT ![i].stage = "stream"]
  /\ inbox' = Append(inbox, StartFrame)
  /\ UNCHANGED <<hookVars, messages, streamingContent, isProcessing,
                 effectPending, turnChunks>>

\* if (!jwtToken): the 'JWT token is required' error frame, and return
HandlerMissingToken(i) ==
  /\ reqs[i].stage = "notoken"
  /\ reqs' = Remove(reqs, i)
  /\ inbox' = Append(inbox, ErrorFrame)
  /\ UNCHANGED <<hookVars, messages, streamingContent, isProcessing,
                 effectPending, turnChunks>>

HandlerChunkUpTo(i, limit) ==
  /\ reqs[i].stage = "stream"
  /\ reqs[i].chunks < limit
  /\ reqs' = [reqs EXCEPT ![i].chunks = @ + 1]
  /\ inbox' = Append(inbox, ChunkFrame(ChunkText(reqs[i].chunks + 1)))
  /\ UNCHANGED <<hookVars, messages, streamingContent, isProcessing,
                 effectPending, turnChunks>>

HandlerChunk(i) == HandlerChunkUpTo(i, MaxChunks)

HandlerEnd(i) ==
  /\ reqs[i].stage = "stream"
  /\ reqs' = Remove(reqs, i)
  /\ inbox' = Append(inbox, EndFrame)
  /\ UNCHANGED <<hookVars, messages, streamingContent, isProcessing,
                 effectPending, turnChunks>>

HandlerError(i) ==
  /\ reqs[i].stage = "stream"
  /\ reqs' = Remove(reqs, i)
  /\ inbox' = Append(inbox, ErrorFrame)
  /\ UNCHANGED <<hookVars, messages, streamingContent, isProcessing,
                 effectPending, turnChunks>>

\* ------------------------------------------------------ StreamingChat
\* <StreamingChat> mounts once; its hook connects
ChatMount ==
  /\ phase = "new"
  /\ Mount
  /\ UNCHANGED chatVars

\* the socket of the chat opens; messages flushed from the queue reach the route
ChatOnopen ==
  /\ Onopen(TRUE)
  /\ reqs' = reqs \o Invocations(Len(messageQueue))
  /\ UNCHANGED <<messages, streamingContent, isProcessing, effectPending,
                 inbox, turnChunks>>

\* the connection drops: later posts of its invocations fail (the handler's
\* catch cannot reach the client either) and undelivered frames are lost
ChatOnclose(st, withError) ==
  /\ Onclose(TRUE, st, withError)
  /\ reqs' = <<>>
  /\ inbox' = <<>>
  /\ UNCHANGED <<messages, streamingContent, isProcessing, effectPending,
                 turnChunks>>

ChatTimerFire(named) ==
  /\ TimerFire(named)
  /\ UNCHANGED chatVars

\* the Reconnect button, rendered when !isConnected && !isConnecting
ClickReconnect ==
  /\ ~isConnected /\ ~isConnecting
  /\ Reconnect
  /\ UNCHANGED chatVars

\* a frame arrives on the open socket
ChatOnmessage ==
  /\ inbox # <<>>
  /\ Onmessage(Head(inbox))
  /\ inbox' = Tail(inbox)
  /\ effectPending' = TRUE
  /\ turnChunks' = IF Head(inbox).type = "start" THEN <<>>
                   ELSE IF Head(inbox).type = "chunk"
                     THEN turnChunks \o Head(inbox).content
                     ELSE turnChunks
  /\ UNCHANGED <<messages, streamingContent, isProcessing, reqs>>

\* the effect with an 'end' case that appends the buffer and keeps it
EffectEndKeepsBuffer ==
  /\ effectPending
  /\ effectPending' = FALSE
  /\ IF lastMessage.type = "start"
       THEN /\ isProcessing' = TRUE
            /\ streamingContent' = <<>>
            /\ UNCHANGED messages
     ELSE IF lastMessage.type = "chunk"
       THEN /\ streamingContent' = streamingContent \o lastMessage.content
            /\ UNCHANGED <<messages, isProcessing>>
     ELSE IF lastMessage.type = "end"
       THEN /\ messages' = IF streamingContent # <<>>
                             THEN Append(messages, [type |-> "agent",
                                                    content |-> streamingContent])
                             ELSE messages
            /\ streamingContent' = streamingContent
            /\ isProcessing' = FALSE
     ELSE IF lastMessage.type = "error"
       THEN /\ isProcessing' = FALSE
            /\ messages' = Append(messages, [type |-> "agent", content |-> <<"Error">>])
            /\ streamingContent' = <<>>
     ELSE UNCHANGED <<messages, streamingContent, isProcessing>>
  /\ UNCHANGED <<hookVars, reqs, inbox, turnChunks>>

\* useEffect(() => {...}, [lastMessage]): runs after a render in which
\* lastMessage differs from the one of the previous render
Effect ==
  /\ effectPending
  /\ effectPending' = FALSE
  /\ IF lastMessage.type = "start"
       THEN /\ isProcessing' = TRUE
            /\ streamingContent' = <<>>
            /\ UNCHANGED messages
     ELSE IF lastMessage.type = "chunk"
       THEN /\ streamingContent' = IF lastMessage.content # <<>>
                                     THEN streamingContent \o lastMessage.content
                                     ELSE streamingContent
            /\ UNCHANGED <<messages, isProcessing>>
     ELSE IF lastMessage.type = "end"
       THEN /\ messages' = IF streamingContent # <<>>
                             THEN Append(messages, [type |-> "agent",
                                                    content |-> streamingContent])
                             ELSE messages
            /\ streamingContent' = <<>>
            /\ isProcessing' = FALSE
     ELSE IF lastMessage.type = "error"
       THEN /\ isProcessing' = FALSE
            /\ messages' = Append(messages, [type |-> "agent", content |-> <<"Error">>])
            /\ streamingContent' = <<>>
     ELSE UNCHANGED <<messages, streamingContent, isProcessing>>
  /\ UNCHANGED <<hookVars, reqs, inbox, turnChunks>>

\* handleSubmit, reached from the PromptInput, which is
\* disabled={isProcessing || !isConnected}; the prompt typed is not blank.
\* jwtToken is what getAccessToken() resolved to: TRUE for a token, FALSE
\* for null
HandleSubmitWith(jwtToken) ==
  /\ ~(isProcessing \/ ~isConnected)
  /\ ~isProcessing
  /\ messages' = Append(messages, [type |-> "user", content |-> <<"prompt">>])
  /\ SendMessageCall(MaxPrompts)
  /\ reqs' = IF wsRef = "open"
               THEN Append(reqs, IF jwtToken THEN NewReq ELSE NoTokenReq)
               ELSE reqs
  /\ UNCHANGED <<url, phase, isConnected, reconnectAttempts, reconnectTimeout,
                 strayTimers, lastDelay, closeRun, lastMessage>>
  /\ UNCHANGED <<streamingContent, isProcessing, effectPending, inbox,
                 turnChunks>>

\* handleSubmit of a signed-in user
HandleSubmit == HandleSubmitWith(TRUE)

ChatNext ==
  \/ ChatMount /\ ChatOnly
  \/ ChatOnopen /\ ChatOnly
  \/ \E st \in {"connecting", "open"}, e \in BOOLEAN : ChatOnclose(st, e) /\ ChatOnly
  \/ \E n \in BOOLEAN : ChatTimerFire(n) /\ ChatOnly
  \/ ClickReconnect /\ ChatOnly
  \/ HandleSubmit /\ ChatOnly
  \/ \E i \in 1..Len(reqs) : HandlerStart(i) /\ ChatOnly
  \/ \E i \in 1..Len(reqs) : HandlerChunk(i) /\ ChatOnly
  \/ \E i \in 1..Len(reqs) : HandlerEnd(i) /\ ChatOnly
  \/ \E i \in 1..Len(reqs) : HandlerError(i) /\ ChatOnly
  \/ ChatOnmessage /\ ChatOnly
  \/ Effect /\ ChatOnly

\* StreamingChat over its hook and the websocket route
InitChat ==
  HookInit({"ws"}) /\ ChatInit /\ StreamInit
  /\ WordsIdle /\ LogInit /\ AppInit /\ RawIdle
  /\ SessIdle
  /\ UtilIdle
  /\ HandlerIdle
  /\ InvokeIdle
SpecChat == InitChat /\ [][ChatNext]_vars

\* ------------------------------------------------------------- text
RECURSIVE Concat(_)
Concat(texts) == IF texts = <<>> THEN <<>> ELSE Head(texts) \o Concat(Tail(texts))

\* String.prototype.split(' '): one more word than there are spaces
RECURSIVE Split(_)
Split(text) ==
  IF \A i \in 1..Len(text) : text[i] # " " THEN <<text>>
  ELSE LET k == CHOOSE i \in 1..Len(text) :
                  text[i] = " " /\ \A j \in 1..(i - 1) : text[j] # " "
       IN <<SubSeq(text, 1, k - 1)>> \o Split(SubSeq(text, k + 1, Len(text)))

\* Array.prototype.join(' ')
RECURSIVE Join(_)
Join(words) == IF words = <<>> THEN <<>>
               ELSE IF Len(words) = 1 THEN words[1]
               ELSE words[1] \o <<" ">> \o Join(Tail(words))

\* !text.trim()
IsBlank(text) == \A i \in 1..Len(text) : text[i] = " "

\* Array.prototype.slice(from, to) with 0-based bounds
Slice(seq, from, to) == SubSeq(seq, from + 1, IF to < Len(seq) THEN to ELSE Len(seq))

\* --------------------------------------------- simulated streaming
WORD_CHUNK_SIZE == 5
SLICE_CHUNK_SIZE == 20

\* streamWords without the isLastChunk test: every chunk gets the separator
ChunkToSendAlwaysSpace(words, idx) ==
  Join(Slice(words, idx, idx + WORD_CHUNK_SIZE)) \o <<" ">>

\* streamWords: the chunk it passes to onChunk at currentIndex = idx
ChunkToSend(words, idx) ==
  LET chunk == Join(Slice(words, idx, idx + WORD_CHUNK_SIZE))
      isLastChunk == idx + WORD_CHUNK_SIZE >= Len(words)
  IN IF isLastChunk THEN chunk ELSE chunk \o <<" ">>

\* texts of up to n characters
RECURSIVE TextsUpTo(_)
TextsUpTo(n) ==
  IF n = 0 THEN {<<>>}
  ELSE LET shorter == TextsUpTo(n - 1)
       IN shorter \cup {Append(s, c) : s \in {x \in shorter : Len(x) = n - 1},
                                       c \in {"a", " "}}

\* a text long enough to cross the handler's 20-character slices
Padding == [i \in 1..(SLICE_CHUNK_SIZE - 2) |-> "p"]

WordsInit ==
  /\ wMode \in {"words", "slices"}
  /\ \E s \in TextsUpTo(MaxTextLen) \ {<<>>} :
       wText = IF wMode = "words" THEN s ELSE Padding \o s
  /\ wWords = IF wMode = "words" THEN Split(wText) ELSE <<>>
  /\ wIndex = 0
  /\ wChunks = <<>>

\* one run of streamWords (the first is synchronous, the rest are the 30ms
\* timers): frontend invokeAgentStream
StreamWords ==
  /\ wMode = "words"
  /\ wIndex < Len(wWords)
  /\ wChunks' = Append(wChunks, ChunkToSend(wWords, wIndex))
  /\ wIndex' = wIndex + WORD_CHUNK_SIZE
  /\ UNCHANGED <<wText, wWords, wMode>>

\* one iteration of the websocket handler's JSON fallback loop
SliceStep ==
  /\ wMode = "slices"
  /\ wIndex < Len(wText)
  /\ wChunks' = Append(wChunks, Slice(wText, wIndex, wIndex + SLICE_CHUNK_SIZE))
  /\ wIndex' = wIndex + SLICE_CHUNK_SIZE
  /\ UNCHANGED <<wText, wWords, wMode>>

InitWords ==
  HookInit({"none"}) /\ ChatInit /\ StreamInit
  /\ WordsInit /\ LogInit /\ AppInit /\ RawIdle
  /\ SessIdle
  /\ UtilIdle
  /\ HandlerIdle
  /\ InvokeIdle
NextWords ==
  \/ StreamWords /\ WordsOnly
  \/ SliceStep /\ WordsOnly
SpecWords == InitWords /\ [][NextWords]_vars

WordsDone == IF wMode = "words" THEN wIndex >= Len(wWords) ELSE wIndex >= Len(wText)

\* ------------------------------------------------ invokeAgentStream
\* The parsed 'data: ' lines of the response body. kind names the field the
\* code finds: event.contentBlockDelta.delta.text, event.messageDelta.delta.text,
\* event.messageStop.message.content[].text, event.contentBlockStart.start.text,
\* event.messageStart.message.content[0].text, parsed.text, parsed.result.message
Sentence == <<"a", " ", "b", " ", "c", " ", "d", " ", "e", " ", "f">>
EventTexts == {<<" ">>, <<"x">>, Sentence}
AppendKinds == {"contentBlockDelta", "messageDelta", "contentBlockStart",
                "messageStart", "text"}
Events ==
  [kind : AppendKinds \cup {"result"}, texts : {<<s>> : s \in EventTexts}]
  \cup [kind : {"messageStop"},
        texts : {<<s>> : s \in EventTexts}
                \cup {<<s1, s2>> : s1 \in EventTexts, s2 \in {<<"x">>}}]

\* the decoder's state while one read() fragment is processed
Decoder(full, chunks, pending) == [full |-> full, out |-> chunks, timers |-> pending]

\* streamWords() called on a closure (words, currentIndex): onChunk, then
\* setTimeout(streamWords, 30) while words are left
RunStreamWords(st, words, idx) ==
  IF idx >= Len(words) THEN st
  ELSE Decoder(st.full,
               Append(st.out, ChunkToSend(words, idx)),
               IF idx + WORD_CHUNK_SIZE < Len(words)
                 THEN Append(st.timers, [words |-> words,
                                         idx |-> idx + WORD_CHUNK_SIZE])
                 ELSE st.timers)

\* fullResponse = text in place of +=; onChunk(text)
AppendTextAsReplacement(st, text) ==
  Decoder(text, Append(st.out, text), st.timers)

\* fullResponse += text; onChunk(text)
AppendText(st, text) == Decoder(st.full \o text, Append(st.out, text), st.timers)

\* fullResponse = text; simulate streaming by chunking the response
ReplayText(st, text) == RunStreamWords(Decoder(text, st.out, st.timers), Split(text), 0)

\* the for loop over message.content of a messageStop event
RECURSIVE MessageStop(_, _)
MessageStop(st, texts) ==
  IF texts = <<>> THEN st
  ELSE LET text == Head(texts)
           next == IF text = <<>> THEN st
                   ELSE IF IsBlank(st.full) THEN ReplayText(st, text)
                   ELSE AppendText(st, text)
       IN MessageStop(next, Tail(texts))

\* one parsed data line
ProcessEvent(st, ev) ==
  IF ev.kind \in AppendKinds
    THEN IF ev.texts[1] # <<>> THEN AppendText(st, ev.texts[1]) ELSE st
  ELSE IF ev.kind = "messageStop" THEN MessageStop(st, ev.texts)
  ELSE IF ev.kind = "result"
    THEN IF ev.texts[1] # <<>> THEN ReplayText(st, ev.texts[1]) ELSE st
  ELSE st

\* the for loop over the lines of one fragment
RECURSIVE ProcessLines(_, _)
ProcessLines(st, lines) ==
  IF lines = <<>> THEN st
  ELSE ProcessLines(ProcessEvent(st, Head(lines)), Tail(lines))

\* reader.read() resolves with a fragment holding these lines
Read(lines) ==
  /\ pc = "reading"
  /\ nEvents + Len(lines) <= MaxEvents
  /\ nEvents' = nEvents + Len(lines)
  /\ LET st == ProcessLines(Decoder(fullResponse, out, timers), lines)
     IN /\ fullResponse' = st.full
        /\ out' = st.out
        /\ timers' = st.timers
  /\ UNCHANGED <<pc, completeText, outAtComplete>>

\* a 30ms timer set by streamWords fires (equal delays: in the order set)
StreamTimer ==
  /\ timers # <<>>
  /\ LET st == RunStreamWords(Decoder(fullResponse, out, Tail(timers)),
                              Head(timers).words, Head(timers).idx)
     IN /\ out' = st.out
        /\ timers' = st.timers
  /\ UNCHANGED <<pc, fullResponse, nEvents, completeText, outAtComplete>>

\* reader.read() resolves with done: onComplete(fullResponse)
Complete ==
  /\ pc = "reading"
  /\ pc' = "completed"
  /\ completeText' = fullResponse
  /\ outAtComplete' = Len(out)
  /\ UNCHANGED <<fullResponse, out, timers, nEvents>>

InitStream ==
  HookInit({"none"}) /\ ChatInit /\ StreamInit
  /\ WordsIdle /\ LogInit /\ AppInit /\ RawIdle
  /\ SessIdle
  /\ UtilIdle
  /\ HandlerIdle
  /\ InvokeIdle
NextStream ==
  \/ \E e \in Events : Read(<<e>>) /\ StreamOnly
  \/ \E e1, e2 \in Events : Read(<<e1, e2>>) /\ StreamOnly
  \/ StreamTimer /\ StreamOnly
  \/ Complete /\ StreamOnly
SpecStream == InitStream /\ [][NextStream]_vars

\* ------------------------------------- invokeAgentStream: raw body
\* The body as characters. "data: " stands for the six characters of the
\* prefix, "{" and "}" for what comes before and after the text in the JSON
\* of a contentBlockDelta event, "\n" for the line feed.
TextChars == {"x", "y", "z"}

\* chunk.split('\n')
RECURSIVE SplitLines(_)
SplitLines(chunk) ==
  IF \A i \in 1..Len(chunk) : chunk[i] # "\n" THEN <<chunk>>
  ELSE LET k == CHOOSE i \in 1..Len(chunk) :
                  chunk[i] = "\n" /\ \A j \in 1..(i - 1) : chunk[j] # "\n"
       IN <<SubSeq(chunk, 1, k - 1)>>
            \o SplitLines(SubSeq(chunk, k + 1, Len(chunk)))

\* JSON.parse(data) succeeds: the whole event record and nothing else
IsJson(data) ==
  /\ Len(data) >= 2
  /\ data[1] = "{"
  /\ data[Len(data)] = "}"
  /\ \A i \in 2..(Len(data) - 1) : data[i] \in TextChars
\* parsed.event.contentBlockDelta.delta.text
JsonText(data) == SubSeq(data, 2, Len(data) - 1)

\* data === '[DONE]': the sentinel is one symbol
Done == <<"[DONE]">>
\* includes('init_event_loop') || includes('start_event_loop'): each token
\* is one symbol
ControlTokens == {"init_event_loop", "start_event_loop"}
HasControlToken(text) == \E i \in 1..Len(text) : text[i] \in ControlTokens

\* the for loop's body with a catch that drops the data it could not parse
DecodeLineDropsText(st, line) ==
  IF line # <<>> /\ line[1] = "data: "
    THEN LET data == Tail(line)
         IN IF IsBlank(data) \/ data = Done THEN st
            ELSE IF IsJson(data)
              THEN ProcessEvent(st, [kind |-> "contentBlockDelta",
                                     texts |-> <<JsonText(data)>>])
            ELSE st
  ELSE IF IsBlank(line) \/ HasControlToken(line) THEN st
  ELSE IF IsJson(line) THEN st
  ELSE AppendText(st, line)

\* the body of the for loop over the lines of a fragment
DecodeLine(st, line) ==
  IF line # <<>> /\ line[1] = "data: "
    THEN LET data == Tail(line)
         IN IF IsBlank(data) \/ data = Done THEN st
            ELSE IF IsJson(data)
              THEN ProcessEvent(st, [kind |-> "contentBlockDelta",
                                     texts |-> <<JsonText(data)>>])
            ELSE IF HasControlToken(data) THEN st
            ELSE AppendText(st, data)
  ELSE IF IsBlank(line) \/ HasControlToken(line) THEN st
  ELSE IF IsJson(line) THEN st
  ELSE AppendText(st, line)

RECURSIVE DecodeLines(_, _)
DecodeLines(st, lines) ==
  IF lines = <<>> THEN st
  ELSE DecodeLines(DecodeLine(st, Head(lines)), Tail(lines))

\* one iteration of the read loop on the fragment chunk
DecodeFragment(st, chunk) == DecodeLines(st, SplitLines(chunk))

\* 'data: <json>' and the blank line that ends the event
EventLines(text) == <<"data: ", "{">> \o text \o <<"}", "\n", "\n">>
EventBodyTexts == {<<"x">>, <<"y", "z">>}
\* lines that are no event record: plain text, a record cut short, the
\* sentinel, a control message, blank data, and a line without the prefix
OtherLines ==
  {<<"data: ", "x">>, <<"data: ", "{", "x">>, <<"data: ", "[DONE]">>,
   <<"data: ", "x", "init_event_loop">>, <<"data: ", " ">>, <<"x">>}
BodyLines ==
  {EventLines(s) : s \in EventBodyTexts} \cup {l \o <<"\n">> : l \in OtherLines}
RECURSIVE Bodies(_)
Bodies(n) ==
  IF n = 0 THEN {<<>>}
  ELSE LET shorter == Bodies(n - 1)
       IN shorter \cup {b \o l : b \in shorter, l \in BodyLines}

RawInit ==
  /\ body \in Bodies(MaxLines) \ {<<>>}
  /\ readPos = 0

\* reader.read() resolves with the next n characters of the body
ReadFragment(n) ==
  /\ pc = "reading"
  /\ readPos + n <= Len(body)
  /\ readPos' = readPos + n
  /\ LET st == DecodeFragment(Decoder(fullResponse, out, timers),
                              SubSeq(body, readPos + 1, readPos + n))
     IN /\ fullResponse' = st.full
        /\ out' = st.out
        /\ timers' = st.timers
  /\ UNCHANGED <<pc, nEvents, completeText, outAtComplete, body>>

\* reader.read() resolves with done once the body is read
CompleteBody ==
  /\ readPos = Len(body)
  /\ Complete
  /\ UNCHANGED rawVars

InitDecode ==
  HookInit({"none"}) /\ ChatInit /\ StreamInit
  /\ WordsIdle /\ LogInit /\ AppInit /\ RawInit
  /\ SessIdle
  /\ UtilIdle
  /\ HandlerIdle
  /\ InvokeIdle
NextDecode ==
  \/ \E n \in 1..(Len(body) - readPos) : ReadFragment(n) /\ RawOnly
  \/ CompleteBody /\ RawOnly
SpecDecode == InitDecode /\ [][NextDecode]_vars

\* ------------------------------- messageHandler, one invocation
\* PostToConnection is taken to succeed: a lost connection ends the
\* invocation (ChatOnclose), and the catch block's own post fails with it.
Requests == {"ok", "noPrompt", "noToken", "malformed"}

\* the lines an upstream event-stream body is made of
HandlerLines ==
  {<<"data: ", "x">>, <<"data: ", "x", "y">>, <<"data: ", "[DONE]">>,
   <<"data: ">>, <<"x">>, <<>>}
RECURSIVE HandlerBodies(_)
HandlerBodies(n) ==
  IF n = 0 THEN {<<>>}
  ELSE LET shorter == HandlerBodies(n - 1)
       IN shorter \cup {b \o l \o <<"\n">> : b \in shorter, l \in HandlerLines}
\* bodies whose last line ends the body without a newline after it
Unterminated(bodies) == {SubSeq(b, 1, Len(b) - 1) : b \in bodies \ {<<>>}}

\* the resolved responseText of a JSON response
JsonTexts ==
  {<<>>, <<"x">>, Padding \o <<"x", "y">>, Padding \o <<"x", "y", "z">>}

HandlerInit ==
  /\ request \in Requests
  /\ handlerPc = "received"
  /\ contentType = "none"
  /\ buffer = <<>>
  /\ posted = <<>>
  /\ statusCode = 0

HandlerRawInit ==
  /\ body \in HandlerBodies(MaxLines) \cup Unterminated(HandlerBodies(MaxLines))
  /\ readPos = 0

\* the lines of the for loop that reach onChunk, as 'chunk' frames
Relayed(lines) ==
  LET data == SelectSeq(lines, LAMBDA line :
                /\ line # <<>>
                /\ line[1] = "data: "
                /\ Tail(line) # <<>>
                /\ Tail(line) # Done)
  IN [i \in 1..Len(data) |-> ChunkFrame(Tail(data[i]))]

\* the text sliced into chunks of chunkSize characters
RECURSIVE Slices(_)
Slices(text) ==
  IF text = <<>> THEN <<>>
  ELSE <<ChunkFrame(Slice(text, 0, SLICE_CHUNK_SIZE))>>
         \o Slices(Slice(text, SLICE_CHUNK_SIZE, Len(text)))

\* messageHandler that acknowledges before it validates the body
MessageHandlerAcksFirst ==
  /\ handlerPc = "received"
  /\ IF request = "ok"
       THEN /\ posted' = <<StartFrame>>
            /\ handlerPc' = "fetching"
            /\ statusCode' = statusCode
       ELSE /\ posted' = <<StartFrame, ErrorFrame>>
            /\ handlerPc' = "returned"
            /\ statusCode' = IF request = "malformed" THEN 500 ELSE 400
  /\ UNCHANGED <<request, contentType, buffer>>

\* messageHandler up to its first await of the upstream: JSON.parse, the
\* tests of prompt and jwtToken, the 'start' frame
MessageHandler ==
  /\ handlerPc = "received"
  /\ IF request = "ok"
       THEN /\ posted' = <<StartFrame>>
            /\ handlerPc' = "fetching"
            /\ statusCode' = statusCode
       ELSE /\ posted' = <<ErrorFrame>>
            /\ handlerPc' = "returned"
            /\ statusCode' = IF request = "malformed" THEN 500 ELSE 400
  /\ UNCHANGED <<request, contentType, buffer>>

\* the catch block of messageHandler
HandlerCatch ==
  /\ posted' = Append(posted, ErrorFrame)
  /\ handlerPc' = "returned"
  /\ statusCode' = 500

\* the 'end' frame and the return after streamBedrockResponse returned
HandlerComplete(chunks) ==
  /\ posted' = (posted \o chunks) \o <<EndFrame>>
  /\ handlerPc' = "returned"
  /\ statusCode' = 200

\* fetch rejects, or the response is not ok
FetchFails ==
  /\ handlerPc = "fetching"
  /\ HandlerCatch
  /\ UNCHANGED <<request, contentType, buffer>>

\* the response is an event stream: the read loop starts
FetchEventStream ==
  /\ handlerPc = "fetching"
  /\ contentType' = "event-stream"
  /\ handlerPc' = "reading"
  /\ buffer' = <<>>
  /\ UNCHANGED <<request, posted, statusCode>>

\* any other response: response.json() and the slices of responseText
FetchJson(responseText) ==
  /\ handlerPc = "fetching"
  /\ contentType' = "json"
  /\ HandlerComplete(Slices(responseText))
  /\ UNCHANGED <<request, buffer>>

\* reader.read() resolves with the next n characters of the body
HandlerRead(n) ==
  /\ handlerPc = "reading"
  /\ readPos + n <= Len(body)
  /\ readPos' = readPos + n
  /\ LET lines == SplitLines(buffer \o SubSeq(body, readPos + 1, readPos + n))
     IN /\ buffer' = lines[Len(lines)]
        /\ posted' = posted \o Relayed(SubSeq(lines, 1, Len(lines) - 1))
  /\ UNCHANGED <<request, handlerPc, contentType, statusCode, body>>

\* reader.read() rejects
HandlerReadFails ==
  /\ handlerPc = "reading"
  /\ HandlerCatch
  /\ UNCHANGED <<request, contentType, buffer, rawVars>>

\* reader.read() resolves with done
HandlerReadDone ==
  /\ handlerPc = "reading"
  /\ readPos = Len(body)
  /\ HandlerComplete(<<>>)
  /\ UNCHANGED <<request, contentType, buffer, rawVars>>

HandlerStreamOnly ==
  UNCHANGED <<hookVars, chatVars, streamVars, wordVars, logVars, appVars,
              sessVars, utilVars, invokeVars>>

InitHandler ==
  HookInit({"none"}) /\ ChatInit /\ StreamInit
  /\ WordsIdle /\ LogInit /\ AppInit /\ HandlerRawInit
  /\ SessIdle
  /\ UtilIdle
  /\ HandlerInit
  /\ InvokeIdle
NextHandler ==
  \/ MessageHandler /\ HandlerOnly
  \/ FetchFails /\ HandlerOnly
  \/ FetchEventStream /\ HandlerOnly
  \/ \E text \in JsonTexts : FetchJson(text) /\ HandlerOnly
  \/ \E n \in 1..(Len(body) - readPos) : HandlerRead(n) /\ HandlerStreamOnly
  \/ HandlerReadFails /\ HandlerStreamOnly
  \/ HandlerReadDone /\ HandlerStreamOnly
SpecHandler == InitHandler /\ [][NextHandler]_vars

\* ------------------------------------- invokeAgentStream, one call
\* The statements of its try block in order; every throw lands in the one
\* catch block, whose only statement with an effect is onError(error).
InvokeInit ==
  /\ invokePc = "config"
  /\ onCompleteCalls = 0
  /\ onErrorCalls = 0

\* catch (error) { onError(error) }
InvokeCatch ==
  /\ invokePc' = "failed"
  /\ onErrorCalls' = onErrorCalls + 1
  /\ UNCHANGED onCompleteCalls

\* if (!agentRuntimeArn) throw
CheckRuntimeArn(configured) ==
  /\ invokePc = "config"
  /\ IF configured
       THEN invokePc' = "token" /\ UNCHANGED <<onCompleteCalls, onErrorCalls>>
       ELSE InvokeCatch

\* await getAccessToken(): a token, null, or a rejection
GetAccessToken(outcome) ==
  /\ invokePc = "token"
  /\ IF outcome = "token"
       THEN invokePc' = "user" /\ UNCHANGED <<onCompleteCalls, onErrorCalls>>
       ELSE InvokeCatch

\* await getCurrentUser(): a user with sub, none, or a rejection
GetCurrentUser(outcome) ==
  /\ invokePc = "user"
  /\ IF outcome = "user"
       THEN invokePc' = "fetch" /\ UNCHANGED <<onCompleteCalls, onErrorCalls>>
       ELSE InvokeCatch

\* await fetch(...): rejects, a response that is not ok, a response with a
\* body to read
Fetch(outcome) ==
  /\ invokePc = "fetch"
  /\ IF outcome = "ok"
       THEN invokePc' = "reading" /\ UNCHANGED <<onCompleteCalls, onErrorCalls>>
       ELSE InvokeCatch

\* a response without body: reader is undefined, onComplete('')
CompleteWithoutBody ==
  /\ invokePc = "fetch"
  /\ pc = "reading"
  /\ pc' = "completed"
  /\ completeText' = <<>>
  /\ outAtComplete' = 0
  /\ invokePc' = "done"
  /\ onCompleteCalls' = onCompleteCalls + 1
  /\ UNCHANGED <<onErrorCalls, fullResponse, out, timers, nEvents>>

\* the read loop
InvokeRead(lines) ==
  /\ invokePc = "reading"
  /\ Read(lines)
  /\ UNCHANGED invokeVars

\* a timer of an earlier replay fires, whatever the call is doing
InvokeTimer ==
  /\ StreamTimer
  /\ UNCHANGED invokeVars

\* reader.read() rejects and onComplete is called all the same, as it would
\* be after the try statement
ReadRejectsThenCompletes ==
  /\ invokePc = "reading"
  /\ invokePc' = "failed"
  /\ onErrorCalls' = onErrorCalls + 1
  /\ onCompleteCalls' = onCompleteCalls + 1
  /\ UNCHANGED streamVars

\* reader.read() rejects: finally releaseLock(), then the catch block
ReadRejects ==
  /\ invokePc = "reading"
  /\ InvokeCatch
  /\ UNCHANGED streamVars

\* done: finally releaseLock(), then onComplete(fullResponse)
InvokeComplete ==
  /\ invokePc = "reading"
  /\ Complete
  /\ invokePc' = "done"
  /\ onCompleteCalls' = onCompleteCalls + 1
  /\ UNCHANGED onErrorCalls

InvokeStreamOnly ==
  UNCHANGED <<hookVars, chatVars, wordVars, logVars, appVars, rawVars,
              sessVars, utilVars, handlerVars>>

InitInvoke ==
  HookInit({"none"}) /\ ChatInit /\ StreamInit
  /\ WordsIdle /\ LogInit /\ AppInit /\ RawIdle
  /\ SessIdle
  /\ UtilIdle
  /\ HandlerIdle
  /\ InvokeInit
NextInvoke ==
  \/ \E c \in BOOLEAN : CheckRuntimeArn(c) /\ InvokeOnly
  \/ \E o \in {"token", "null", "rejects"} : GetAccessToken(o) /\ InvokeOnly
  \/ \E o \in {"user", "null", "rejects"} : GetCurrentUser(o) /\ InvokeOnly
  \/ \E o \in {"ok", "notOk", "rejects"} : Fetch(o) /\ InvokeOnly
  \/ CompleteWithoutBody /\ InvokeStreamOnly
  \/ \E e \in Events : InvokeRead(<<e>>) /\ InvokeStreamOnly
  \/ \E e1, e2 \in Events : InvokeRead(<<e1, e2>>) /\ InvokeStreamOnly
  \/ InvokeTimer /\ InvokeStreamOnly
  \/ ReadRejects /\ InvokeStreamOnly
  \/ InvokeComplete /\ InvokeStreamOnly
SpecInvoke == InitInvoke /\ [][NextInvoke]_vars

\* --------------------------------------------------------------- App
\* String.prototype.trim on texts of letters and spaces
RECURSIVE TrimStart(_)
TrimStart(text) ==
  IF text # <<>> /\ Head(text) = " " THEN TrimStart(Tail(text)) ELSE text
RECURSIVE TrimEnd(_)
TrimEnd(text) ==
  IF text # <<>> /\ text[Len(text)] = " "
    THEN TrimEnd(SubSeq(text, 1, Len(text) - 1)) ELSE text
Trim(text) == TrimEnd(TrimStart(text))

\* cleanResponse on texts without quotes or backslashes: response.trim()
CleanResponse(response) == Trim(response)

UserMessage == [type |-> "user", content |-> <<"prompt">>]
AgentMessage(content) == [type |-> "agent", content |-> content]

\* the texts invokeAgentStream hands to the callbacks of App
AppChunks == {<<"a">>, <<"b", " ">>}
AppResponses == {<<"a">>, <<"a", "b", " ">>}

\* the message at the 0-based index i, if it is an agent message
IsAgentAt(msgs, i) == i + 1 <= Len(msgs) /\ msgs[i + 1].type = "agent"

\* handleSendMessage, reached from the PromptInput (disabled={loading}) with
\* a prompt that is not blank
\* handleSendMessage up to the fetch of invokeAgentStream; jwtToken is what
\* getAccessToken() resolves to there: with null it throws before the fetch
HandleSendMessageWith(jwtToken) ==
  /\ url = "none"
  /\ ~loading
  /\ user
  /\ Len(calls) < MaxPrompts
  /\ appMessages' = appMessages \o <<UserMessage, AgentMessage(<<>>)>>
  /\ loading' = TRUE
  /\ appError' = ""
  /\ calls' = Append(calls, [index |-> Len(appMessages) + 1, chunks |-> 0,
                             ended |-> FALSE, token |-> jwtToken,
                             fetched |-> jwtToken])
  /\ UNCHANGED user

\* handleSendMessage of a user whose session holds a token
HandleSendMessage == HandleSendMessageWith(TRUE)

\* onChunk of the k-th call (after its onComplete too: the 30ms timers)
AppOnChunk(k, chunk) ==
  /\ calls[k].fetched
  /\ calls[k].chunks < MaxChunks
  /\ calls' = [calls EXCEPT ![k].chunks = @ + 1]
  /\ appMessages' =
       IF IsAgentAt(appMessages, calls[k].index)
         THEN [appMessages EXCEPT ![calls[k].index + 1].content =
                 @ \o CleanResponse(chunk)]
         ELSE appMessages
  /\ UNCHANGED <<user, loading, appError>>

\* onComplete of the k-th call
AppOnComplete(k, full) ==
  /\ calls[k].fetched
  /\ ~calls[k].ended
  /\ calls' = [calls EXCEPT ![k].ended = TRUE]
  /\ appMessages' =
       IF IsAgentAt(appMessages, calls[k].index)
         THEN [appMessages EXCEPT ![calls[k].index + 1].content =
                 CleanResponse(full)]
         ELSE appMessages
  /\ loading' = FALSE
  /\ UNCHANGED <<user, appError>>

\* onError without the rollback of the optimistic agent message
AppOnErrorKeepsPlaceholder(k) ==
  /\ ~calls[k].ended
  /\ calls' = [calls EXCEPT ![k].ended = TRUE]
  /\ appError' = "error"
  /\ loading' = FALSE
  /\ UNCHANGED <<user, appMessages>>

\* onError of the k-th call
AppOnError(k) ==
  /\ ~calls[k].ended
  /\ calls' = [calls EXCEPT ![k].ended = TRUE]
  /\ appError' = "error"
  /\ loading' = FALSE
  /\ appMessages' = Slice(appMessages, 0, Len(appMessages) - 1)
  /\ UNCHANGED user

\* handleSignOut
HandleSignOut ==
  /\ url = "none"
  /\ user
  /\ user' = FALSE
  /\ appMessages' = <<>>
  /\ UNCHANGED <<loading, appError, calls>>

\* handleAuthSuccess: checkAuth() finds the user
HandleAuthSuccess ==
  /\ url = "none"
  /\ ~user
  /\ user' = TRUE
  /\ UNCHANGED <<appMessages, loading, appError, calls>>

\* ------------------------------------------------ session identifiers
\* Math.random() as the digits of its base-36 fraction: none for 0, one
\* for 0.5 ("0.i"), ten or eleven for most values
RECURSIVE Fraction(_)
Fraction(n) == IF n = 0 THEN <<>> ELSE Append(Fraction(n - 1), "k")
Randoms == {Fraction(n) : n \in {0, 1, MaxRandomDigits - 1, MaxRandomDigits}}
\* Number.prototype.toString(36) of a value in [0, 1)
ToString36(digits) == IF digits = <<>> THEN <<"0">> ELSE <<"0", ".">> \o digits
\* String.prototype.substring(from, to)
Substring(s, from, to) ==
  IF from >= Len(s) THEN <<>> ELSE Slice(s, from, to)
\* Date.now() in decimal: thirteen digits from 2001 to 2286
Timestamps == {<<"1", "7", "6", "1", "7", "8", "5", "4", "0", "0", "0", "0", "0">>,
               <<"9", "9", "9", "9", "9", "9", "9", "9", "9", "9", "9", "9", "9">>}
\* user.sub: the UUID the identity provider assigns
Subs == {<<"0", "1", "2", "3", "4", "5", "6", "7", "-",
         "8", "9", "a", "b", "-", "c", "d", "e", "f", "-", "0", "1", "2", "3",
         "-", "4", "5", "6", "7", "8", "9", "a", "b", "c", "d", "e", "f">>}

\* websocket handler, streamBedrockResponse
HandlerSessionId(now, r1, r2) ==
  <<"s", "e", "s", "s", "i", "o", "n", "-">> \o now \o <<"-">>
    \o Substring(ToString36(r1), 2, Len(ToString36(r1))) \o <<"-">>
    \o Substring(ToString36(r2), 2, Len(ToString36(r2)))

\* frontend, the temporary session of getUserSpecificSessionId
TemporarySessionId(now, r1, r2) ==
  <<"s", "e", "s", "s", "i", "o", "n", "_">> \o now \o <<"_">>
    \o Substring(ToString36(r1), 2, 15) \o <<"_">>
    \o Substring(ToString36(r2), 2, 15)

\* frontend, `user_${user.sub}_session`
UserSessionId(sub) ==
  <<"u", "s", "e", "r", "_">> \o sub \o <<"_", "s", "e", "s", "s", "i", "o", "n">>

\* streamBedrockResponse builds the header of its fetch
StreamBedrockSession ==
  /\ \E now \in Timestamps, r1 \in Randoms, r2 \in Randoms :
       sessionId' = HandlerSessionId(now, r1, r2)
  /\ UNCHANGED sessionStorage

\* getUserSpecificSessionId(); sub is <<>> when getCurrentUser() finds no
\* user or no sub
GetUserSpecificSessionId(sub) ==
  IF sub = <<>>
    THEN IF sessionStorage = <<>>
           THEN /\ \E now \in Timestamps, r1 \in Randoms, r2 \in Randoms :
                     sessionStorage' = TemporarySessionId(now, r1, r2)
                /\ sessionId' = sessionStorage'
           ELSE /\ sessionId' = sessionStorage
                /\ UNCHANGED sessionStorage
    ELSE /\ sessionId' = UserSessionId(sub)
         /\ UNCHANGED sessionStorage

InitSession ==
  HookInit({"none"}) /\ ChatInit /\ StreamInit
  /\ WordsIdle /\ LogInit /\ AppInit /\ RawIdle
  /\ SessIdle
  /\ UtilIdle
  /\ HandlerIdle
  /\ InvokeIdle
NextSession ==
  \/ StreamBedrockSession /\ SessOnly
  \/ \E sub \in Subs \cup {<<>>} : GetUserSpecificSessionId(sub) /\ SessOnly
SpecSession == InitSession /\ [][NextSession]_vars

\* ------------------------------------------------- the two chat UIs
\* main.tsx renders AppStreaming (StreamingChat) when a WebSocket URL is
\* configured and App otherwise; the connection stays up during the turns
InitTurns ==
  HookInit({"none", "ws"}) /\ ChatInit /\ StreamInit
  /\ WordsIdle /\ LogInit /\ AppInit /\ RawIdle
  /\ SessIdle
  /\ UtilIdle
  /\ HandlerIdle
  /\ InvokeIdle
NextTurns ==
  \/ ChatMount /\ url = "ws" /\ ChatOnly
  \/ ChatOnopen /\ ChatOnly
  \/ \E tok \in BOOLEAN : HandleSubmitWith(tok) /\ ChatOnly
  \/ \E i \in 1..Len(reqs) : HandlerStart(i) /\ ChatOnly
  \/ \E i \in 1..Len(reqs) : HandlerMissingToken(i) /\ ChatOnly
  \/ \E i \in 1..Len(reqs) : HandlerChunkUpTo(i, MaxTurnChunks) /\ ChatOnly
  \/ \E i \in 1..Len(reqs) : HandlerEnd(i) /\ ChatOnly
  \/ \E i \in 1..Len(reqs) : HandlerError(i) /\ ChatOnly
  \/ ChatOnmessage /\ ChatOnly
  \/ Effect /\ ChatOnly
  \/ \E tok \in BOOLEAN : HandleSendMessageWith(tok) /\ AppOnly
  \/ \E k \in 1..Len(calls), c \in AppChunks : AppOnChunk(k, c) /\ AppOnly
  \/ \E k \in 1..Len(calls), r \in AppResponses : AppOnComplete(k, r) /\ AppOnly
  \/ \E k \in 1..Len(calls) : AppOnError(k) /\ AppOnly
  \/ HandleSignOut /\ AppOnly
  \/ HandleAuthSuccess /\ AppOnly
SpecTurns == InitTurns /\ [][NextTurns]_vars

\* ------------------------------------------------- content sanitizer
\* texts are sequences of one-character strings
Digit == {"0", "1", "2", "3", "4", "5", "6", "7", "8", "9"}
Letter ==
  {"a", "b", "c", "d", "e", "f", "g", "h", "i", "j", "k", "l", "m", "n", "o",
   "p", "q", "r", "s", "t", "u", "v", "w", "x", "y", "z", "A", "B", "C", "D",
   "E", "F", "G", "H", "I", "J", "K", "L", "M", "N", "O", "P", "Q", "R", "S",
   "T", "U", "V", "W", "X", "Y", "Z"}
\* \w
WordChar == Letter \cup Digit \cup {"_"}
\* [A-Za-z0-9._%+-], [A-Za-z0-9.-] and [A-Z|a-z] of the email pattern
LocalClass == Letter \cup Digit \cup {".", "_", "%", "+", "-"}
DomainClass == Letter \cup Digit \cup {".", "-"}
TldClass == Letter \cup {"|"}

\* the character at 1-based position i, "" outside the text
At(text, i) == IF i \in 1..Len(text) THEN text[i] ELSE ""
\* \b between positions i - 1 and i
Boundary(text, i) == (At(text, i - 1) \in WordChar) # (At(text, i) \in WordChar)
\* n characters of the class from position i on
Run(text, i, n, class) == \A j \in 0..(n - 1) : At(text, i + j) \in class
\* [-.]? at position p: the position after it
OptSep(text, p) == IF At(text, p) \in {"-", "."} THEN p + 1 ELSE p

\* /\b\d{3}[-.]?\d{3}[-.]?\d{4}\b/ matched at position i: the position
\* after the match, 0 when there is none
PhoneEnd(text, i) ==
  LET b == OptSep(text, i + 3)
      c == OptSep(text, b + 3)
  IN IF /\ Boundary(text, i) /\ Run(text, i, 3, Digit)
        /\ Run(text, b, 3, Digit) /\ Run(text, c, 4, Digit)
        /\ Boundary(text, c + 4)
       THEN c + 4 ELSE 0

\* /\b\d{3}-\d{2}-\d{4}\b/ matched at position i
SsnEnd(text, i) ==
  IF /\ Boundary(text, i) /\ Run(text, i, 3, Digit) /\ At(text, i + 3) = "-"
     /\ Run(text, i + 4, 2, Digit) /\ At(text, i + 6) = "-"
     /\ Run(text, i + 7, 4, Digit) /\ Boundary(text, i + 11)
    THEN i + 11 ELSE 0

\* /\b[A-Za-z0-9._%+-]+@[A-Za-z0-9.-]+\.[A-Z|a-z]{2,}\b/ matched at
\* position i: the quantifiers are greedy, so the last dot that leaves a
\* top-level part, then the longest top-level part that ends at a \b
EmailEnd(text, i) ==
  LET n == Len(text)
      ats == {k \in (i + 1)..n : At(text, k) = "@" /\ Run(text, i, k - i, LocalClass)}
      tlds(q) == {e \in (q + 3)..(n + 1) :
                    Run(text, q + 1, e - q - 1, TldClass) /\ Boundary(text, e)}
      dots(k) == {q \in (k + 2)..n :
                    /\ At(text, q) = "." /\ Run(text, k + 1, q - k - 1, DomainClass)
                    /\ tlds(q) # {}}
  IN IF ~Boundary(text, i) \/ ats = {} THEN 0
     ELSE LET k == CHOOSE x \in ats : TRUE
          IN IF dots(k) = {} THEN 0
             ELSE LET q == CHOOSE x \in dots(k) : \A y \in dots(k) : y <= x
                  IN CHOOSE e \in tlds(q) : \A y \in tlds(q) : y <= e

\* a mask that keeps a number between the brackets
PhoneRedactedKeepsNumber ==
  <<"[", "5", "5", "5", "-", "5", "5", "5", "-", "4", "5", "6", "7", "]">>
PhoneRedacted == <<"[", "P", "H", "O", "N", "E", " ", "R", "E", "D", "A", "C", "T", "E", "D", "]">>
EmailRedacted == <<"[", "E", "M", "A", "I", "L", " ", "R", "E", "D", "A", "C", "T", "E", "D", "]">>
SsnRedacted == <<"[", "S", "S", "N", " ", "R", "E", "D", "A", "C", "T", "E", "D", "]">>

MatchEnd(kind, text, i) ==
  IF kind = "phone" THEN PhoneEnd(text, i)
  ELSE IF kind = "email" THEN EmailEnd(text, i)
  ELSE SsnEnd(text, i)
Redacted(kind) ==
  IF kind = "phone" THEN PhoneRedacted
  ELSE IF kind = "email" THEN EmailRedacted
  ELSE SsnRedacted

\* String.prototype.replace with a /g pattern, from position i on: matches
\* are taken left to right and do not overlap
RECURSIVE ReplaceFrom(_, _, _)
ReplaceFrom(kind, text, i) ==
  IF i > Len(text) THEN <<>>
  ELSE LET e == MatchEnd(kind, text, i)
       IN IF e > 0 THEN Redacted(kind) \o ReplaceFrom(kind, text, e)
          ELSE <<text[i]>> \o ReplaceFrom(kind, text, i + 1)

sanitizeForHIPAA(content) ==
  ReplaceFrom("ssn", ReplaceFrom("email", ReplaceFrom("phone", content, 1), 1), 1)

\* --------------------------------------------- sanitizer on texts
\* the pieces the texts are made of: enough for phone numbers with and
\* without separators, SSNs, email addresses and what may stand around them
SanitizerPieces ==
  {<<"5", "5", "5", "-">>,
   <<"5", "5", "5">>,
   <<"4", "5", "6", "7">>,
   <<"5", "5", "-">>,
   <<"a", "@">>,
   <<"b", ".">>,
   <<"c", "o">>,
   <<"|">>,
   <<" ">>}
RECURSIVE TextsOf(_, _)
TextsOf(pieces, n) ==
  IF n = 0 THEN {<<>>}
  ELSE LET shorter == TextsOf(pieces, n - 1)
       IN shorter \cup {s \o p : s \in shorter, p \in pieces}

SanitizeInit ==
  /\ rawChunk \in TextsOf(SanitizerPieces, MaxPieces)
  /\ sanitized = <<>>
  /\ verdict = NoVerdict
  /\ warnings = <<>>
  /\ utilPc = "input"

\* sanitizeForHIPAA(rawChunk)
Sanitize ==
  /\ utilPc = "input"
  /\ sanitized' = sanitizeForHIPAA(rawChunk)
  /\ utilPc' = "sanitized"
  /\ UNCHANGED <<rawChunk, verdict, warnings>>

\* sanitizeForHIPAA applied to its own result
Resanitize ==
  /\ utilPc = "sanitized"
  /\ sanitized' = sanitizeForHIPAA(sanitized)
  /\ utilPc' = "resanitized"
  /\ UNCHANGED <<rawChunk, verdict, warnings>>

InitSanitize ==
  HookInit({"none"}) /\ ChatInit /\ StreamInit
  /\ WordsIdle /\ LogInit /\ AppInit /\ RawIdle
  /\ SessIdle
  /\ HandlerIdle
  /\ InvokeIdle
  /\ SanitizeInit
NextSanitize ==
  \/ Sanitize /\ UtilOnly
  \/ Resanitize /\ UtilOnly
SpecSanitize == InitSanitize /\ [][NextSanitize]_vars

\* ------------------------------------------------ safety classifier
LowerCase ==
  <<"a", "b", "c", "d", "e", "f", "g", "h", "i", "j", "k", "l", "m",
    "n", "o", "p", "q", "r", "s", "t", "u", "v", "w", "x", "y", "z">>
UpperCase ==
  <<"A", "B", "C", "D", "E", "F", "G", "H", "I", "J", "K", "L", "M",
    "N", "O", "P", "Q", "R", "S", "T", "U", "V", "W", "X", "Y", "Z">>
\* String.prototype.toLowerCase on the letters A-Z
ToLowerChar(c) ==
  IF \E i \in 1..26 : UpperCase[i] = c
    THEN LowerCase[CHOOSE i \in 1..26 : UpperCase[i] = c]
    ELSE c
ToLowerCase(text) == [i \in 1..Len(text) |-> ToLowerChar(text[i])]
\* String.prototype.includes
Includes(text, phrase) ==
  \E i \in 0..(Len(text) - Len(phrase)) :
    SubSeq(text, i + 1, i + Len(phrase)) = phrase

CRITICAL_EMERGENCY_PHRASES ==
  <<<<"c", "h", "e", "s", "t", " ", "p", "a", "i", "n">>,
    <<"c", "a", "n", "'", "t", " ", "b", "r", "e", "a", "t", "h", "e">>,
    <<"d", "i", "f", "f", "i", "c", "u", "l", "t", "y", " ", "b", "r", "e", "a", "t", "h", "i", "n", "g">>,
    <<"s", "e", "v", "e", "r", "e", " ", "b", "l", "e", "e", "d", "i", "n", "g">>,
    <<"l", "o", "s", "s", " ", "o", "f", " ", "c", "o", "n", "s", "c", "i", "o", "u", "s", "n", "e", "s", "s">>,
    <<"s", "e", "v", "e", "r", "e", " ", "a", "l", "l", "e", "r", "g", "i", "c", " ", "r", "e", "a", "c", "t", "i", "o", "n">>,
    <<"s", "t", "r", "o", "k", "e", " ", "s", "y", "m", "p", "t", "o", "m", "s">>,
    <<"h", "e", "a", "r", "t", " ", "a", "t", "t", "a", "c", "k">>,
    <<"s", "u", "i", "c", "i", "d", "a", "l", " ", "t", "h", "o", "u", "g", "h", "t", "s">>,
    <<"d", "r", "u", "g", " ", "o", "v", "e", "r", "d", "o", "s", "e">>,
    <<"s", "e", "v", "e", "r", "e", " ", "t", "r", "a", "u", "m", "a">>>>

MEDICATION_INTERACTION_TERMS ==
  <<<<"t", "a", "k", "i", "n", "g", " ", "w", "i", "t", "h">>,
    <<"c", "o", "m", "b", "i", "n", "e", "d", " ", "w", "i", "t", "h">>,
    <<"d", "r", "u", "g", " ", "i", "n", "t", "e", "r", "a", "c", "t", "i", "o", "n">>,
    <<"c", "o", "n", "t", "r", "a", "i", "n", "d", "i", "c", "a", "t", "i", "o", "n">>,
    <<"s", "h", "o", "u", "l", "d", " ", "n", "o", "t", " ", "t", "a", "k", "e">>>>

\* the lists of the stream processor
EMERGENCY_KEYWORDS ==
  <<<<"c", "h", "e", "s", "t", " ", "p", "a", "i", "n">>,
    <<"d", "i", "f", "f", "i", "c", "u", "l", "t", "y", " ", "b", "r", "e", "a", "t", "h", "i", "n", "g">>,
    <<"s", "e", "v", "e", "r", "e", " ", "b", "l", "e", "e", "d", "i", "n", "g">>,
    <<"u", "n", "c", "o", "n", "s", "c", "i", "o", "u", "s">>,
    <<"s", "e", "i", "z", "u", "r", "e">>,
    <<"s", "t", "r", "o", "k", "e">>,
    <<"h", "e", "a", "r", "t", " ", "a", "t", "t", "a", "c", "k">>,
    <<"s", "u", "i", "c", "i", "d", "e">>,
    <<"o", "v", "e", "r", "d", "o", "s", "e">>>>

MEDICATION_KEYWORDS ==
  <<<<"p", "r", "e", "s", "c", "r", "i", "p", "t", "i", "o", "n">>,
    <<"m", "e", "d", "i", "c", "a", "t", "i", "o", "n">>,
    <<"d", "r", "u", "g">>,
    <<"d", "o", "s", "a", "g", "e">>,
    <<"s", "i", "d", "e", " ", "e", "f", "f", "e", "c", "t">>,
    <<"i", "n", "t", "e", "r", "a", "c", "t", "i", "o", "n">>>>

\* detectEmergency that compares without lowering the content
detectEmergencyCaseSensitive(text) ==
  \E i \in 1..Len(CRITICAL_EMERGENCY_PHRASES) :
    Includes(text, CRITICAL_EMERGENCY_PHRASES[i])

detectEmergency(text) ==
  LET lowerContent == ToLowerCase(text)
  IN \E i \in 1..Len(CRITICAL_EMERGENCY_PHRASES) :
       Includes(lowerContent, CRITICAL_EMERGENCY_PHRASES[i])

detectMedicationInteraction(text) ==
  LET lowerContent == ToLowerCase(text)
  IN \E i \in 1..Len(MEDICATION_INTERACTION_TERMS) :
       Includes(lowerContent, MEDICATION_INTERACTION_TERMS[i])

\* checkMedicalContentSafety whose medication codes are pushed only when
\* no emergency was detected
checkMedicalContentSafetyExclusive(text) ==
  LET emergencyDetected == detectEmergency(text)
      medicationWarning == detectMedicationInteraction(text)
  IN [isSafe |-> ~emergencyDetected,
      emergencyDetected |-> emergencyDetected,
      medicationWarning |-> medicationWarning,
      recommendations |->
        IF emergencyDetected THEN <<"CALL_911", "SEEK_IMMEDIATE_CARE">>
        ELSE IF medicationWarning
          THEN <<"CONSULT_PHARMACIST", "VERIFY_WITH_DOCTOR">>
        ELSE <<>>]

checkMedicalContentSafety(text) ==
  LET emergencyDetected == detectEmergency(text)
      medicationWarning == detectMedicationInteraction(text)
  IN [isSafe |-> ~emergencyDetected,
      emergencyDetected |-> emergencyDetected,
      medicationWarning |-> medicationWarning,
      recommendations |->
        (IF emergencyDetected THEN <<"CALL_911", "SEEK_IMMEDIATE_CARE">>
                              ELSE <<>>)
        \o (IF medicationWarning
              THEN <<"CONSULT_PHARMACIST", "VERIFY_WITH_DOCTOR">>
              ELSE <<>>)]

\* the keywords of the list that lowerContent includes, as warnings
Warnings(kind, keywords, lowerContent) ==
  LET found == SelectSeq(keywords, LAMBDA k : Includes(lowerContent, k))
  IN [i \in 1..Len(found) |-> [kind |-> kind, keyword |-> found[i]]]

\* checkMedicalSafety of the stream processor
checkMedicalSafety(text) ==
  LET lowerContent == ToLowerCase(text)
  IN Warnings("EMERGENCY_DETECTED", EMERGENCY_KEYWORDS, lowerContent)
       \o Warnings("MEDICATION_CONTENT", MEDICATION_KEYWORDS, lowerContent)

\* the pieces the classified texts are made of
ClassifierPieces ==
  {<<"c", "h", "e", "s", "t", " ", "p", "a", "i", "n">>,
   <<"C", "H", "E", "S", "T", " ", "P", "A", "I", "N">>,
   <<"C", "h", "e", "s", "t">>,
   <<" ", "p", "a", "i", "n">>,
   <<"s", "t", "r", "o", "k", "e">>,
   <<" ", "S", "y", "m", "p", "t", "o", "m", "s">>,
   <<"D", "r", "u", "g", " ", "I", "n", "t", "e", "r", "a", "c", "t", "i", "o", "n">>,
   <<"t", "a", "k", "i", "n", "g">>,
   <<" ", "w", "i", "t", "h">>,
   <<"s", "e", "i", "z", "u", "r", "e">>,
   <<"x">>}

ClassifyInit ==
  /\ rawChunk \in TextsOf(ClassifierPieces, MaxPhrases)
  /\ sanitized = <<>>
  /\ verdict = NoVerdict
  /\ warnings = <<>>
  /\ utilPc = "input"

CheckMedicalContentSafety ==
  /\ utilPc = "input"
  /\ verdict' = checkMedicalContentSafety(rawChunk)
  /\ utilPc' = "checked"
  /\ UNCHANGED <<rawChunk, sanitized, warnings>>

CheckMedicalSafety ==
  /\ utilPc = "input"
  /\ warnings' = checkMedicalSafety(rawChunk)
  /\ utilPc' = "warned"
  /\ UNCHANGED <<rawChunk, sanitized, verdict>>

InitClassify ==
  HookInit({"none"}) /\ ChatInit /\ StreamInit
  /\ WordsIdle /\ LogInit /\ AppInit /\ RawIdle
  /\ SessIdle
  /\ HandlerIdle
  /\ InvokeIdle
  /\ ClassifyInit
NextClassify ==
  \/ CheckMedicalContentSafety /\ UtilOnly
  \/ CheckMedicalSafety /\ UtilOnly
SpecClassify == InitClassify /\ [][NextClassify]_vars

\* ======================================================== properties

\* C1: when the 'end' frame is processed, the streaming buffer equals the
\* concatenation of the chunk frames received since 'start', each applied
\* once and in receipt order, whatever the interleaving of arrivals and effects.
C1_BufferIsChunks ==
  [][(effectPending /\ ~effectPending' /\ lastMessage.type = "end")
       => streamingContent = turnChunks]_vars

\* C2: at most one prompt is in flight: from submit until its 'end' or 'error'
\* no second generation is started on the route.
C2_OnePromptInFlight == Len(reqs) <= 1

\* C3: the k-th consecutive unexpected close (k = 0..4, none since the last
\* open) schedules one reconnect after 1000 * 2^k ms; the close after the
\* fifth schedules none, sets the terminal error and leaves no timer pending.
C3_BackoffSchedule ==
  [][closeRun' = closeRun + 1 =>
       IF closeRun < MAX_RECONNECT_ATTEMPTS
         THEN /\ lastDelay' = INITIAL_RECONNECT_DELAY * Pow2(closeRun)
              /\ PendingTimers' = PendingTimers + 1
         ELSE /\ PendingTimers' = 0
              /\ error' = ErrMaxAttempts]_vars

\* C4: no message given to sendMessage is dropped or sent twice: the messages
\* sent so far followed by the messages still queued are the messages
\* 1..nCalls in call order, so a flush precedes every later direct send.
SentMsgs == [i \in 1..Len(sent) |-> sent[i].msg]
C4_QueueFifo == SentMsgs \o messageQueue = [i \in 1..nCalls |-> i]

\* two messages queued while connecting were flushed at the open, then a
\* third was sent directly
C4_Witness ==
  /\ Len(sent) = 3
  /\ sent[1].queued /\ sent[2].queued /\ ~sent[3].queued
  /\ messageQueue = <<>>

\* C5: the hook never has more than one live socket (connecting or open with
\* its handlers attached).
C5_OneLiveSocket == LiveCount <= 1

\* C6: the close event of a socket torn down by disconnect() changes no
\* client state and schedules no reconnect.
C6_TeardownSilent ==
  [][(others'["closing"] < others["closing"] \/ others'["failing"] < others["failing"])
       => UNCHANGED <<isConnected, isConnecting, error, reconnectAttempts,
                      reconnectTimeout, strayTimers, lastDelay>>]_vars

\* C7: once the connection has closed and no frame is left to process, the
\* turn in progress has been ended: the chat is idle (not processing) and
\* holds no partial buffer.
C7_CloseEndsTurn ==
  (wsRef \notin {"open", Null} /\ ~effectPending)
    => (~isProcessing /\ streamingContent = <<>>)

\* C8: the text given to onComplete is the concatenation, in call order, of
\* the texts given to onChunk (taken when no simulated chunk is still pending).
C8_CompleteIsChunks ==
  (pc = "completed" /\ timers = <<>>) => completeText = Concat(out)

\* C9: no onChunk call happens after onComplete.
C9_NoChunkAfterComplete == pc = "completed" => Len(out) = outAtComplete

\* every chunk but the last holds exactly 5 words and the separator that
\* follows them; the last holds at most 5 words
FiveWordGroups ==
  \A j \in 1..Len(wChunks) :
    LET w == Split(wChunks[j])
    IN IF j < Len(wChunks)
         THEN Len(w) = WORD_CHUNK_SIZE + 1 /\ w[Len(w)] = <<>>
         ELSE Len(w) <= WORD_CHUNK_SIZE

\* every chunk but the last holds exactly 20 characters; the last at most 20
TwentyCharSlices ==
  \A j \in 1..Len(wChunks) :
    IF j < Len(wChunks) THEN Len(wChunks[j]) = SLICE_CHUNK_SIZE
    ELSE Len(wChunks[j]) <= SLICE_CHUNK_SIZE

\* C10 as stated: every simulated streaming of a text T emits groups of 5
\* space-separated words whose concatenation is T.
C10_AlwaysFiveWords == WordsDone => (FiveWordGroups /\ Concat(wChunks) = wText)

\* C10 amended: the chunks concatenated in emission order equal T in both
\* implementations; streamWords (invokeAgentStream) emits groups of 5 words,
\* the websocket handler's JSON fallback emits slices of 20 characters.
C10_RoundTrip ==
  WordsDone =>
    /\ Concat(wChunks) = wText
    /\ wMode = "words" => FiveWordGroups
    /\ wMode = "slices" => TwentyCharSlices

\* a text with a leading space and consecutive spaces, streamed to the end
\* by streamWords in two chunks
C10_Witness ==
  /\ WordsDone
  /\ wMode = "words"
  /\ Len(wChunks) = 2
  /\ wText[1] = " " /\ wText[2] = " "

\* C13: an open event sets the attempt counter to 0, and when the opened
\* socket then closes as the first unexpected close since that open, the
\* reconnect is scheduled with the base delay of 1000 ms.
C13_OpenResetsBackoff ==
  [][/\ (wsRef = "connecting" /\ wsRef' = "open") => reconnectAttempts' = 0
     /\ (wsRef = "open" /\ wsRef' = "closed" /\ closeRun = 0)
          => (lastDelay' = INITIAL_RECONNECT_DELAY /\ reconnectAttempts' = 1)]_vars

\* C14: reconnect() leaves no backoff timer pending, has torn down the
\* socket of the ref, has the attempt counter at 0 and a new socket
\* connecting, in the same step, from every state.
C14_ReconnectNow ==
  [][(url = "ws" /\ Reconnect) =>
       /\ PendingTimers' = 0
       /\ reconnectAttempts' = 0
       /\ wsRef' = "connecting" /\ isConnecting'
       /\ others' = Put(others, CloseCall(wsRef))]_vars

\* C15: the error exposed by the hook is null unless the retry ceiling was
\* exceeded or the socket could not be constructed.
C15_OnlyTerminalErrors == error \in {Null, ErrMaxAttempts, ErrCreate}

\* C16: an error event, or a frame that fails to parse, is reported in the
\* hook's error value and leaves the connected/connecting status, the attempt
\* counter, the outbound queue and lastMessage as they were.
C16_ErrorLeavesLifecycle ==
  [][((wsRef # "erred" /\ wsRef' = "erred") \/ parseErrors' # parseErrors) =>
       /\ error' # Null
       /\ UNCHANGED <<isConnected, isConnecting, reconnectAttempts,
                      messageQueue, lastMessage>>]_vars

\* C17: disconnect() (the effect cleanup, or the first step of reconnect())
\* discards the outbound queue.
C17_TeardownDropsQueue ==
  [][(Unmount \/ Reconnect) => messageQueue' = <<>>]_vars

\* C11: processing an 'error' frame clears the streaming buffer, ends the
\* turn and adds only the error entry to the history; in App, onError removes
\* exactly the agent placeholder of its turn and keeps the user's message.
ErrorEntry == [type |-> "agent", content |-> <<"Error">>]
C11_ErrorDiscardsPartial ==
  [][/\ (effectPending /\ ~effectPending' /\ lastMessage.type = "error")
          => /\ streamingContent' = <<>>
             /\ ~isProcessing'
             /\ messages' = Append(messages, ErrorEntry)
     /\ \A k \in 1..Len(calls) :
          (~calls[k].ended /\ Len(calls') = Len(calls) /\ calls'[k].ended
             /\ appError' = "error")
            => /\ appMessages' = SubSeq(appMessages, 1, Len(appMessages) - 1)
               /\ appMessages # <<>> =>
                    /\ Len(appMessages) = calls[k].index + 1
                    /\ appMessages[Len(appMessages)].type = "agent"
                    /\ appMessages'[Len(appMessages')] = UserMessage]_vars

\* an 'error' frame was processed after a chunk of the turn had been
\* received: the history ends with the error entry, the buffer is empty
C11_Witness ==
  /\ lastMessage.type = "error" /\ ~effectPending
  /\ turnChunks # <<>>
  /\ streamingContent = <<>> /\ ~isProcessing
  /\ messages = <<[type |-> "user", content |-> <<"prompt">>], ErrorEntry>>

C18_ChunksSanitized ==
  [][\A i \in 1..Len(reqs) :
       HandlerChunk(i) =>
         inbox' = Append(inbox,
                         ChunkFrame(sanitizeForHIPAA(ChunkText(reqs[i].chunks + 1))))]_vars

\* C19: a submit made while no token is available causes no network
\* activity: StreamingChat passes nothing to the socket or its queue, and
\* invokeAgentStream issues no fetch
C19_NoTokenNoNetwork ==
  [][/\ HandleSubmitWith(FALSE) => UNCHANGED <<sent, messageQueue>>
     /\ HandleSendMessageWith(FALSE) => ~calls'[Len(calls')].fetched]_vars

\* C20: however the body is split into the fragments the reads deliver,
\* the texts passed to onChunk are those of the body read as one fragment
C20_SplitInvariant ==
  pc = "completed" =>
    out = DecodeFragment(Decoder(<<>>, <<>>, <<>>), body).out

\* C21: every session identifier sent upstream has at least 33 characters
C21_SessionIdLength == sessionId # <<>> => Len(sessionId) >= 33

\* the read that has just been done delivered exactly one 'data: ' line
\* (without its line feed) whose data is not blank and is no JSON
FailedDataRead ==
  /\ readPos' > readPos
  /\ SubSeq(body, readPos + 1, readPos')[1] = "data: "
  /\ \A i \in (readPos + 1)..readPos' : body[i] # "\n"
  /\ (readPos = 0 \/ body[readPos] = "\n")
  /\ (readPos' = Len(body) \/ body[readPos' + 1] = "\n")
  /\ ~IsBlank(SubSeq(body, readPos + 2, readPos'))
  /\ ~IsJson(SubSeq(body, readPos + 2, readPos'))
FailedData == SubSeq(body, readPos + 2, readPos')

\* C22 as stated: data that fails to parse becomes one literal chunk and is
\* appended to the full response, unless it holds a control token, and
\* the stream goes on
C22_LiteralUnlessControl ==
  [][FailedDataRead =>
       /\ pc' = "reading"
       /\ IF HasControlToken(FailedData)
            THEN out' = out /\ fullResponse' = fullResponse
            ELSE /\ out' = Append(out, FailedData)
                 /\ fullResponse' = fullResponse \o FailedData]_vars

\* C22 amended: the '[DONE]' sentinel is skipped as well
C22_LiteralUnlessSkipped ==
  [][FailedDataRead =>
       /\ pc' = "reading"
       /\ IF HasControlToken(FailedData) \/ FailedData = Done
            THEN out' = out /\ fullResponse' = fullResponse
            ELSE /\ out' = Append(out, FailedData)
                 /\ fullResponse' = fullResponse \o FailedData]_vars

\* a record cut short has been emitted as literal text
C22_Witness ==
  /\ Len(body) >= 3
  /\ SubSeq(body, 1, 3) = <<"data: ", "{", "x">>
  /\ readPos = 3
  /\ out = <<(<<"{", "x">>)>>
  /\ fullResponse = <<"{", "x">>

\* C23: sanitizing a sanitized text changes nothing
C23_Idempotent ==
  [][Resanitize => sanitized' = sanitized]_vars

\* a text in which something was masked has been sanitized again
C23_Witness ==
  /\ utilPc = "resanitized"
  /\ sanitizeForHIPAA(rawChunk) # rawChunk

\* two characters that differ at most in case
SameIgnoringCase(a, b) ==
  \/ a = b
  \/ \E i \in 1..26 : {a, b} = {LowerCase[i], UpperCase[i]}
\* the text holds one of the phrases, whatever the case of its letters
ContainsIgnoringCase(text, phrases) ==
  \E k \in 1..Len(phrases) :
    \E i \in 0..(Len(text) - Len(phrases[k])) :
      \A j \in 1..Len(phrases[k]) : SameIgnoringCase(text[i + j], phrases[k][j])

\* C24: emergency is reported exactly when the text holds a phrase of the
\* list, compared without regard to case
C24_EmergencyIffPhrase ==
  /\ utilPc = "checked" =>
       (verdict.emergencyDetected
          <=> ContainsIgnoringCase(rawChunk, CRITICAL_EMERGENCY_PHRASES))
  /\ utilPc = "warned" =>
       ((\E i \in 1..Len(warnings) : warnings[i].kind = "EMERGENCY_DETECTED")
          <=> ContainsIgnoringCase(rawChunk, EMERGENCY_KEYWORDS))

\* a phrase written in capitals was found
C24_Witness ==
  /\ utilPc = "checked"
  /\ verdict.emergencyDetected
  /\ ~detectEmergencyCaseSensitive(rawChunk)

RecommendationSet == {verdict.recommendations[i] : i \in 1..Len(verdict.recommendations)}

\* C25 as stated: the codes are CALL_EMERGENCY_SERVICES and
\* SEEK_IMMEDIATE_CARE for an emergency, CONSULT_PHARMACIST and
\* VERIFY_WITH_PROVIDER for a medication interaction, and nothing else
C25_CodesAsStated ==
  utilPc = "checked" =>
    RecommendationSet =
      (IF verdict.emergencyDetected
         THEN {"CALL_EMERGENCY_SERVICES", "SEEK_IMMEDIATE_CARE"} ELSE {})
      \cup (IF verdict.medicationWarning
              THEN {"CONSULT_PHARMACIST", "VERIFY_WITH_PROVIDER"} ELSE {})

\* C25 amended: the codes are CALL_911 and SEEK_IMMEDIATE_CARE for an
\* emergency, CONSULT_PHARMACIST and VERIFY_WITH_DOCTOR for a medication
\* interaction, each once, and nothing else
C25_CodesAdditive ==
  utilPc = "checked" =>
    /\ RecommendationSet =
         (IF verdict.emergencyDetected
            THEN {"CALL_911", "SEEK_IMMEDIATE_CARE"} ELSE {})
         \cup (IF verdict.medicationWarning
                 THEN {"CONSULT_PHARMACIST", "VERIFY_WITH_DOCTOR"} ELSE {})
    /\ Len(verdict.recommendations) = Cardinality(RecommendationSet)
    /\ verdict.emergencyDetected = detectEmergency(rawChunk)
    /\ verdict.medicationWarning = detectMedicationInteraction(rawChunk)

\* both an emergency and a medication interaction were detected
C25_Witness ==
  /\ utilPc = "checked"
  /\ verdict.emergencyDetected
  /\ verdict.medicationWarning

\* C26: with no endpoint configured the hook never creates a socket, is
\* never connecting or connected, schedules no timer and reports no error
C26_InertWithoutUrl ==
  url = "none" =>
    /\ wsRef = Null
    /\ others = NoOthers
    /\ ~isConnecting
    /\ ~isConnected
    /\ ~reconnectTimeout
    /\ strayTimers = 0
    /\ lastDelay = 0
    /\ error = Null
    /\ sent = <<>>

\* the hook is mounted without endpoint and sendMessage has queued messages
C26_Witness ==
  /\ url = "none"
  /\ phase = "mounted"
  /\ Len(messageQueue) = MaxSends

\* the 'chunk' frames of every 'data: ' line of the body, whether or not a
\* newline ends it, but for the empty ones and '[DONE]'
UpstreamChunks == Relayed(SplitLines(body))
PostedChunks == SelectSeq(posted, LAMBDA f : f.type = "chunk")
IsPrefix(s, t) == Len(s) <= Len(t) /\ s = SubSeq(t, 1, Len(s))

C30_EveryLineRelayed ==
  (handlerPc = "returned" /\ statusCode = 200 /\ contentType = "event-stream")
    => PostedChunks = UpstreamChunks

MessageStopEvents == {e \in Events : e.kind = "messageStop"}

\* C29: a message-stop event read when the response already holds text that
\* is not blank is not replayed: each of its texts is appended to the
\* response and emitted as one chunk, and no timer is set
C29_StopAppendsAfterText ==
  [][\A e \in MessageStopEvents :
       (Read(<<e>>) /\ ~IsBlank(fullResponse)) =>
         /\ fullResponse' = fullResponse \o Concat(e.texts)
         /\ out' = out \o e.texts
         /\ timers' = timers]_vars

\* text was received, and a message-stop event with two texts came after it
C29_Witness ==
  /\ nEvents = 2
  /\ out = <<(<<"x">>), Sentence, (<<"x">>)>>
  /\ fullResponse = (<<"x">> \o Sentence) \o <<"x">>
  /\ timers = <<>>

\* C28: a call that has ended has called exactly one of onComplete and
\* onError, once; a call that has not ended has called neither
C28_OneTerminalCallback ==
  /\ invokePc = "done" => (onCompleteCalls = 1 /\ onErrorCalls = 0)
  /\ invokePc = "failed" => (onCompleteCalls = 0 /\ onErrorCalls = 1)
  /\ invokePc \notin {"done", "failed"} =>
       (onCompleteCalls = 0 /\ onErrorCalls = 0)

\* the read failed after chunks had been delivered
C28_Witness ==
  /\ invokePc = "failed"
  /\ out # <<>>
  /\ onErrorCalls = 1

====
